---- MODULE Spec2Model ----
(***************************************************************************)
(* Typer: the custom-type registry (registerType / unregisterType /        *)
(* listTypes), the single-value matcher (is) and the recursive schema      *)
(* validator (checkStructure / validateSchemaValue).                       *)
(*                                                                         *)
(* JavaScript strings are sequences of one-character strings, so that      *)
(* toLowerCase, trim, split("|"), endsWith("?") and slice are computed.    *)
(* JavaScript values are records [t, v]: t is the tag, v the payload.      *)
(* An error message is the record of its template (kind) and of the        *)
(* values interpolated into it (path, exp, got).                           *)
(***************************************************************************)
EXTENDS Integers, Sequences, FiniteSets, TLC

VARIABLES typesMap, args, ret

vars == <<typesMap, args, ret>>

(***************************************************************************)
(* Strings                                                                 *)
(***************************************************************************)
UpperCase == <<"A","B","C","D","E","F","G","H","I","J","K","L","M",
               "N","O","P","Q","R","S","T","U","V","W","X","Y","Z">>

LowerCase == <<"a","b","c","d","e","f","g","h","i","j","k","l","m",
               "n","o","p","q","r","s","t","u","v","w","x","y","z">>

WhiteSpace == {" ", "\t", "\n"}

Digit == <<"0","1","2","3","4","5","6","7","8","9">>

\* String.prototype.toLowerCase on one character
LowerChar(c) ==
    IF \E i \in 1..Len(UpperCase) : UpperCase[i] = c
    THEN LowerCase[CHOOSE i \in 1..Len(UpperCase) : UpperCase[i] = c]
    ELSE c

toLowerCase(s) == [i \in 1..Len(s) |-> LowerChar(s[i])]

RECURSIVE trimStart(_)
trimStart(s) ==
    IF s # <<>> /\ Head(s) \in WhiteSpace THEN trimStart(Tail(s)) ELSE s

RECURSIVE trimEnd(_)
trimEnd(s) ==
    IF s # <<>> /\ s[Len(s)] \in WhiteSpace
    THEN trimEnd(SubSeq(s, 1, Len(s) - 1)) ELSE s

trim(s) == trimEnd(trimStart(s))

endsWith(s, c) == s # <<>> /\ s[Len(s)] = c

\* s.slice(0, -1)
sliceDropLast(s) == SubSeq(s, 1, Len(s) - 1)

\* s.split(sep): the segments between separators, empty segments included
RECURSIVE splitFrom(_, _, _)
splitFrom(s, sep, cur) ==
    IF s = <<>> THEN <<cur>>
    ELSE IF Head(s) = sep THEN <<cur>> \o splitFrom(Tail(s), sep, <<>>)
    ELSE splitFrom(Tail(s), sep, Append(cur, Head(s)))

split(s, sep) == splitFrom(s, sep, <<>>)

\* Array.prototype.filter, for the predicate "t.length > 0"
RECURSIVE filterNonEmpty(_)
filterNonEmpty(ss) ==
    IF ss = <<>> THEN <<>>
    ELSE IF Len(Head(ss)) > 0 THEN <<Head(ss)>> \o filterNonEmpty(Tail(ss))
    ELSE filterNonEmpty(Tail(ss))

\* `${i}` for a natural number i
RECURSIVE toString(_)
toString(i) ==
    IF i < 10 THEN <<Digit[i + 1]>>
    ELSE toString(i \div 10) \o <<Digit[(i % 10) + 1]>>

(***************************************************************************)
(* JavaScript values                                                       *)
(***************************************************************************)
Undef == [t |-> "undefined", v |-> 0]
Null == [t |-> "null", v |-> 0]
Str(s) == [t |-> "string", v |-> s]
Num(n) == [t |-> "number", v |-> n]
Bool(b) == [t |-> "boolean", v |-> b]
Fn(name) == [t |-> "function", v |-> name]
\* an array: v is the sequence of its elements
Arr(elems) == [t |-> "array", v |-> elems]
\* a plain object: v is the sequence of its own properties [k, v], in
\* insertion order (the order of Object.keys)
Obj(props) == [t |-> "object", v |-> props]
Prop(key, val) == [k |-> key, v |-> val]

typeof(x) ==
    IF x.t \in {"null", "array", "object"} THEN "object" ELSE x.t

isArray(x) == x.t = "array"

truthy(x) ==
    CASE x.t = "undefined" -> FALSE
      [] x.t = "null" -> FALSE
      [] x.t = "string" -> x.v # <<>>
      [] x.t = "number" -> x.v # 0
      [] x.t = "boolean" -> x.v
      [] OTHER -> TRUE

\* getType without its Array.isArray line
getType_noArray(x) ==
    IF x.t = "null" THEN "null" ELSE typeof(x)

getType(x) ==
    IF x.t = "null" THEN "null"
    ELSE IF isArray(x) THEN "array"
    ELSE typeof(x)

\* Object.keys(o)
keysOf(o) ==
    IF o.t = "object" THEN [i \in 1..Len(o.v) |-> o.v[i].k] ELSE <<>>

hasOwnProperty(o, key) ==
    o.t = "object" /\ \E i \in 1..Len(o.v) : o.v[i].k = key

N_constructor == <<"c","o","n","s","t","r","u","c","t","o","r">>

\* o[key] on an object: the own property, else the property inherited
\* from Object.prototype (constructor, the one inherited name in use here),
\* else undefined
getProp(o, key) ==
    IF hasOwnProperty(o, key)
    THEN o.v[CHOOSE i \in 1..Len(o.v) : o.v[i].k = key].v
    ELSE IF key = N_constructor THEN Fn("Object")
    ELSE Undef

(***************************************************************************)
(* The registry                                                            *)
(***************************************************************************)
\* the own properties of typesMap after construction
FreshTypesMap ==
    <<"a">> :> "tArray" @@
    <<"a", "r", "r">> :> "tArray" @@
    <<"a", "r", "r", "a", "y">> :> "tArray" @@
    <<"a", "b">> :> "tArrayBuffer" @@
    <<"a", "r", "r", "_", "b", "u", "f", "f">> :> "tArrayBuffer" @@
    <<"a", "r", "r", "a", "y", "_", "b", "u", "f", "f", "e", "r">> :> "tArrayBuffer" @@
    <<"t", "a">> :> "tTypedArray" @@
    <<"t", "y", "p", "_", "a", "r", "r">> :> "tTypedArray" @@
    <<"t", "y", "p", "e", "d", "_", "a", "r", "r", "a", "y">> :> "tTypedArray" @@
    <<"b", "i">> :> "tBigint" @@
    <<"b", "i", "n", "t">> :> "tBigint" @@
    <<"b", "i", "g", "i", "n", "t">> :> "tBigint" @@
    <<"b">> :> "tBoolean" @@
    <<"b", "o", "o", "l">> :> "tBoolean" @@
    <<"b", "o", "o", "l", "e", "a", "n">> :> "tBoolean" @@
    <<"d", "t">> :> "tDate" @@
    <<"d", "a", "t", "e">> :> "tDate" @@
    <<"d", "v">> :> "tDataView" @@
    <<"d", "t", "_", "v">> :> "tDataView" @@
    <<"d", "a", "t", "a", "_", "v", "i", "e", "w">> :> "tDataView" @@
    <<"d", "o", "m">> :> "tDomElement" @@
    <<"d", "o", "m", "e", "l">> :> "tDomElement" @@
    <<"d", "o", "m", "e", "l", "e", "m", "e", "n", "t">> :> "tDomElement" @@
    <<"f">> :> "tFunction" @@
    <<"f", "u", "n", "c", "t">> :> "tFunction" @@
    <<"f", "u", "n", "c", "t", "i", "o", "n">> :> "tFunction" @@
    <<"j">> :> "tJSON" @@
    <<"j", "s", "o", "n">> :> "tJSON" @@
    <<"m", "a", "p">> :> "tMap" @@
    <<"n">> :> "tNumber" @@
    <<"n", "u", "m">> :> "tNumber" @@
    <<"n", "u", "m", "b", "e", "r">> :> "tNumber" @@
    <<"n", "u", "l", "l">> :> "tNull" @@
    <<"o">> :> "tObject" @@
    <<"o", "b", "j">> :> "tObject" @@
    <<"o", "b", "j", "e", "c", "t">> :> "tObject" @@
    <<"r", "e", "g">> :> "tRegex" @@
    <<"r", "e", "g", "e", "x">> :> "tRegex" @@
    <<"r", "e", "g", "e", "x", "p">> :> "tRegex" @@
    <<"s", "e", "t">> :> "tSet" @@
    <<"s">> :> "tString" @@
    <<"s", "t", "r">> :> "tString" @@
    <<"s", "t", "r", "i", "n", "g">> :> "tString" @@
    <<"s", "y", "m">> :> "tSymbol" @@
    <<"s", "y", "m", "b", "o", "l">> :> "tSymbol" @@
    <<"u">> :> "tUndefined" @@
    <<"u", "n", "d", "e", "f">> :> "tUndefined" @@
    <<"u", "n", "d", "e", "f", "i", "n", "e", "d">> :> "tUndefined" @@
    <<"v", "o", "i", "d">> :> "tUndefined"

N_string == <<"s","t","r","i","n","g">>

\* the validators callers register in this model: one that returns its
\* argument for every value, one that throws for every value, one that
\* throws unless its argument is a string, and one that throws unless its
\* argument is a string and returns that string in lower case
CustomValidators == {"vAny", "vNone", "vStr", "vLower"}

\* name.toLowerCase().trim()
normalize(name) == trim(toLowerCase(name))

\* this.typesMap[key]: the own property, else what Object.prototype
\* provides under that key (the Object constructor under "constructor"),
\* else undefined.  typesMap is an object literal, so a lookup follows the
\* prototype chain.  "constructor" is the inherited name of the model; the
\* other lower-case inherited name, "__proto__", is not among its names.
lookup(reg, key) ==
    IF key \in DOMAIN reg THEN reg[key]
    ELSE IF key = N_constructor THEN "Object"
    ELSE "undefined"

\* JSON.parse(s) returns for these strings of the model
ValidJSON == {<<"1">>, <<"{", "}">>}

\* TRUE iff the call checker(p) returns (does not throw).  bound tells
\* whether the checker was called with `this` bound to the Typer instance
\* (checker.bind(this), in isType) or as a plain function (in is).
RECURSIVE accepts(_, _, _, _)
accepts(reg, checker, p, bound) ==
    CASE checker = "tArray" -> isArray(p)
      [] checker = "tArrayBuffer" -> p.t = "arraybuffer"
      [] checker = "tBigint" -> typeof(p) = "bigint"
      [] checker = "tBoolean" -> typeof(p) = "boolean"
      [] checker = "tDataView" -> p.t = "dataview"
      [] checker = "tDate" -> p.t = "date"
      [] checker = "tDomElement" -> p.t = "htmlelement"
      [] checker = "tFunction" -> typeof(p) = "function"
      [] checker = "tJSON" ->
            \* this.isType('string', p), then JSON.parse
            /\ bound
            /\ lookup(reg, N_string) # "undefined"
            /\ accepts(reg, lookup(reg, N_string), p, TRUE)
            /\ p.t = "string" /\ p.v \in ValidJSON
      [] checker = "tMap" -> p.t = "map"
      [] checker = "tNumber" -> typeof(p) = "number"
      [] checker = "tNull" -> p.t = "null"
      [] checker = "tObject" -> typeof(p) = "object" /\ ~isArray(p)
      [] checker = "tRegex" -> p.t = "regexp"
      [] checker = "tSet" -> p.t = "set"
      [] checker = "tString" -> typeof(p) = "string"
      [] checker = "tSymbol" -> typeof(p) = "symbol"
      [] checker = "tTypedArray" -> p.t = "typedarray"
      [] checker = "tUndefined" -> typeof(p) = "undefined"
      [] checker = "Object" -> TRUE
      [] checker = "vAny" -> TRUE
      [] checker = "vNone" -> FALSE
      [] checker = "vStr" -> typeof(p) = "string"
      [] checker = "vLower" -> typeof(p) = "string"

\* is(value, types) over typeList[i..]: "true", "false", or "unknown" when
\* it throws Error(`Unknown type: ...`)
RECURSIVE isFrom(_, _, _, _)
isFrom(reg, value, typeList, i) ==
    IF i > Len(typeList) THEN "false"
    ELSE LET checker == lookup(reg, normalize(typeList[i]))
         IN IF checker = "undefined" THEN "unknown"
            ELSE IF accepts(reg, checker, value, FALSE) THEN "true"
            ELSE isFrom(reg, value, typeList, i + 1)

\* types is a sequence of names here; a single name is passed as <<name>>
is(reg, value, types) == isFrom(reg, value, types, 1)

\* the message of the error checker(p) throws when it rejects p, called
\* with `this` bound: the template and the values interpolated into it
RECURSIVE reason(_, _, _)
reason(reg, checker, p) ==
    CASE checker = "tArray" -> [msg |-> "must be an array", value |-> p]
      [] checker = "tArrayBuffer" -> [msg |-> "must be an ArrayBuffer", value |-> p]
      [] checker = "tBigint" -> [msg |-> "must be a bigint", value |-> p]
      [] checker = "tBoolean" -> [msg |-> "must be a boolean", value |-> p]
      [] checker = "tDataView" -> [msg |-> "must be a DataView", value |-> p]
      [] checker = "tDate" -> [msg |-> "must be a valid Date", value |-> p]
      [] checker = "tDomElement" -> [msg |-> "must be a DOM element", value |-> p]
      [] checker = "tFunction" -> [msg |-> "must be a function", value |-> p]
      [] checker = "tJSON" ->
            \* the error of this.isType('string', p), else that of JSON.parse
            IF lookup(reg, N_string) = "undefined"
            THEN [msg |-> "Unknown type", value |-> Str(N_string)]
            ELSE IF ~accepts(reg, lookup(reg, N_string), p, TRUE)
            THEN [msg |-> "None of the types matched", value |-> p,
                  reasons |-> <<reason(reg, lookup(reg, N_string), p)>>]
            ELSE [msg |-> "must be a valid JSON string", value |-> p]
      [] checker = "tMap" -> [msg |-> "must be a Map", value |-> p]
      [] checker = "tNumber" -> [msg |-> "must be a number", value |-> p]
      [] checker = "tNull" -> [msg |-> "must be null", value |-> p]
      [] checker = "tObject" -> [msg |-> "must be a non-array object", value |-> p]
      [] checker = "tRegex" -> [msg |-> "must be a RegExp", value |-> p]
      [] checker = "tSet" -> [msg |-> "must be a Set", value |-> p]
      [] checker = "tString" -> [msg |-> "must be a string", value |-> p]
      [] checker = "tSymbol" -> [msg |-> "must be a symbol", value |-> p]
      [] checker = "tTypedArray" -> [msg |-> "must be a TypedArray", value |-> p]
      [] checker = "tUndefined" -> [msg |-> "must be undefined", value |-> p]
      [] checker = "vNone" -> [msg |-> "vNone: rejected", value |-> p]
      [] checker = "vStr" -> [msg |-> "vStr: not a string", value |-> p]
      [] checker = "vLower" -> [msg |-> "vLower: not a string", value |-> p]

\* what checker(p) returns when it accepts p
returned(checker, p) ==
    IF checker = "vLower" THEN Str(toLowerCase(p.v)) ELSE p

\* types.map(type => ...) of isType, over types[i..]: the position of the
\* first name without a checker, 0 when every name has one
RECURSIVE firstUnknown(_, _, _)
firstUnknown(reg, types, i) ==
    IF i > Len(types) THEN 0
    ELSE IF lookup(reg, normalize(types[i])) = "undefined" THEN i
    ELSE firstUnknown(reg, types, i + 1)

\* the loop of isType that stops at the first rejection
isTypeFrom_firstReasonOnly(reg, types, p, i, errors) ==
    IF accepts(reg, lookup(reg, normalize(types[i])), p, TRUE)
    THEN [raised |-> "none", value |-> p]
    ELSE [raised |-> "TypeError", value |-> p,
          reasons |-> <<reason(reg, lookup(reg, normalize(types[i])), p)>>]

\* the loop of isType returning what the checker returned
isTypeFrom_checkerResult(reg, types, p, i, errors) ==
    LET firstOk == {j \in i..Len(types) :
                      accepts(reg, lookup(reg, normalize(types[j])), p, TRUE)}
    IN IF firstOk # {}
       THEN [raised |-> "none",
             value |-> returned(lookup(reg, normalize(
                          types[CHOOSE j \in firstOk : \A k \in firstOk : j <= k])), p)]
       ELSE [raised |-> "TypeError", value |-> p,
             reasons |-> [j \in 1..Len(types) |->
                            reason(reg, lookup(reg, normalize(types[j])), p)]]

\* for (const check of typeCheckers) { try { check(p); return p } catch (e)
\* { errors.push(e.message) } } throw new TypeError(...), over types[i..]
RECURSIVE isTypeFrom(_, _, _, _, _)
isTypeFrom(reg, types, p, i, errors) ==
    IF i > Len(types)
    THEN [raised |-> "TypeError", value |-> p, reasons |-> errors]
    ELSE LET checker == lookup(reg, normalize(types[i]))
         IN IF accepts(reg, checker, p, TRUE)
            THEN [raised |-> "none", value |-> p]
            ELSE isTypeFrom(reg, types, p, i + 1,
                            Append(errors, reason(reg, checker, p)))

\* isType(types, p); types is a sequence of names, a single name is <<name>>
isType(reg, types, p) ==
    LET u == firstUnknown(reg, types, 1)
    IN IF u # 0
       THEN [raised |-> "Unknown type", value |-> Str(types[u])]
       ELSE isTypeFrom(reg, types, p, 1, <<>>)

\* registerType without the test for an existing entry
registerType_noGuard(reg, name, validator, override) ==
    [raised |-> "none",
     map |-> [k \in DOMAIN reg \cup {normalize(name)} |->
                IF k = normalize(name) THEN validator ELSE reg[k]]]

\* the outcome of registerType(name, validator, override) on reg
registerType(reg, name, validator, override) ==
    LET typeKey == normalize(name)
    IN IF lookup(reg, typeKey) # "undefined" /\ ~override
       THEN [raised |-> "already registered", map |-> reg]
       ELSE [raised |-> "none",
             map |-> [k \in DOMAIN reg \cup {typeKey} |->
                        IF k = typeKey THEN validator ELSE reg[k]]]

\* the outcome of unregisterType(name) on reg
unregisterType(reg, name) ==
    LET typeKey == normalize(name)
    IN IF lookup(reg, typeKey) = "undefined"
       THEN [raised |-> "not registered", map |-> reg]
       ELSE [raised |-> "none",
             map |-> [k \in DOMAIN reg \ {typeKey} |-> reg[k]]]

\* Object.keys(this.typesMap), as a set
listTypes(reg) == DOMAIN reg

\* JSON.stringify of one name
quote(name) == <<"\"">> \o name \o <<"\"">>

\* JSON.stringify(Object.keys(this.typesMap)): the entries of the array
\* the text denotes, as a set
exportTypes(reg) == {quote(k) : k \in DOMAIN reg}

\* JSON.parse of one array element: a string literal, the numeral 1 or
\* null; anything else is a syntax error
parseElement(e) ==
    IF Len(e) >= 2 /\ e[1] = "\"" /\ e[Len(e)] = "\""
       /\ \A i \in 2..(Len(e) - 1) : e[i] # "\""
    THEN [ok |-> TRUE, value |-> Str(SubSeq(e, 2, Len(e) - 1))]
    ELSE IF e = <<"1">> THEN [ok |-> TRUE, value |-> Num(1)]
    ELSE IF e = <<"n", "u", "l", "l">> THEN [ok |-> TRUE, value |-> Null]
    ELSE [ok |-> FALSE, value |-> Undef]

\* JSON.parse(json) for the texts without white space whose elements hold
\* no comma: an array of elements, an empty object, or one element
parseJSON(json) ==
    IF Len(json) >= 2 /\ json[1] = "[" /\ json[Len(json)] = "]"
    THEN LET inner == SubSeq(json, 2, Len(json) - 1)
             parts == IF inner = <<>> THEN <<>> ELSE split(inner, ",")
             elems == [i \in 1..Len(parts) |-> parseElement(parts[i])]
         IN IF \A i \in 1..Len(elems) : elems[i].ok
            THEN [ok |-> TRUE, value |-> Arr([i \in 1..Len(elems) |-> elems[i].value])]
            ELSE [ok |-> FALSE, value |-> Undef]
    ELSE IF json = <<"{", "}">> THEN [ok |-> TRUE, value |-> Obj(<<>>)]
    ELSE parseElement(json)

\* the property key a value is converted to in this.typesMap[type]
propertyKey(v) ==
    CASE v.t = "string" -> v.v
      [] v.t = "number" -> toString(v.v)
      [] v.t = "null" -> <<"n", "u", "l", "l">>

\* types.forEach(type => { if (!this.typesMap[type]) console.warn(...) }),
\* over types[i..]: the values the warnings show
RECURSIVE importWarnings(_, _, _)
importWarnings(reg, types, i) ==
    IF i > Len(types) THEN <<>>
    ELSE IF lookup(reg, propertyKey(types[i])) = "undefined"
    THEN <<types[i]>> \o importWarnings(reg, types, i + 1)
    ELSE importWarnings(reg, types, i + 1)

\* the outcome of importTypes(json) on reg
importTypes(reg, json) ==
    LET parsed == parseJSON(json)
    IN IF ~parsed.ok
       THEN [raised |-> "SyntaxError", warnings |-> <<>>, map |-> reg]
       ELSE IF ~isArray(parsed.value)
       THEN [raised |-> "Invalid type list", warnings |-> <<>>, map |-> reg]
       ELSE [raised |-> "none",
             warnings |-> importWarnings(reg, parsed.value.v, 1),
             map |-> reg]

\* what `is` is given for a schema entry of validate: a name or a list
typeListOf(expectedType) ==
    IF isArray(expectedType)
    THEN [i \in 1..Len(expectedType.v) |-> expectedType.v[i].v]
    ELSE <<expectedType.v>>

\* Object.keys(schema).forEach(...) of validate, from the key at position
\* i: the errors, or raised when `is` throws
RECURSIVE validateFrom(_, _, _, _, _)
validateFrom(reg, schema, obj, i, errors) ==
    IF i > Len(keysOf(schema)) THEN [raised |-> "none", errors |-> errors]
    ELSE LET key == keysOf(schema)[i]
             expectedType == getProp(schema, key)
             value == getProp(obj, key)
             r == is(reg, value, typeListOf(expectedType))
         IN IF r = "unknown" THEN [raised |-> "Unknown type", errors |-> <<>>]
            ELSE IF r = "false"
            THEN validateFrom(reg, schema, obj, i + 1,
                     Append(errors, [kind |-> "Expected to be of type",
                                     path |-> key, exp |-> expectedType,
                                     got |-> typeof(value)]))
            ELSE validateFrom(reg, schema, obj, i + 1, errors)

\* validate(schema, obj)
validate(reg, schema, obj) == validateFrom(reg, schema, obj, 1, <<>>)

(***************************************************************************)
(* The schema validator                                                    *)
(***************************************************************************)
\* an error message: kind is its template, path, exp and got the values
\* interpolated into it
Err(kind, path, exp, got) ==
    [kind |-> kind, path |-> path, exp |-> exp, got |-> got]

\* path ? `${path}.${key}` : key
fullPathOf(path, key) ==
    IF path # <<>> THEN path \o <<".">> \o key ELSE key

\* the element path with a one-based index
elemPathOf_oneBased(fullPath, i) ==
    fullPath \o <<"[">> \o toString(i + 1) \o <<"]">>

\* `${fullPath}[${i}]`
elemPathOf(fullPath, i) == fullPath \o <<"[">> \o toString(i) \o <<"]">>

\* the callback of types.filter: try { return this.is(value, type) }
\* catch { return false }
tryIs(reg, value, type) ==
    LET r == is(reg, value, <<type>>)
    IN IF r = "unknown" THEN "false" ELSE r

\* the filter looking at the first segment of a union only
noneValid_firstOnly(reg, value, types, i) ==
    IF tryIs(reg, value, types[1]) = "true" THEN "false" ELSE "true"

\* the filter giving up at the first segment that names no type
RECURSIVE noneValid_stopAtUnknown(_, _, _, _)
noneValid_stopAtUnknown(reg, value, types, i) ==
    IF i > Len(types) THEN "true"
    ELSE IF is(reg, value, <<types[i]>>) = "unknown" THEN "true"
    ELSE IF is(reg, value, <<types[i]>>) = "true" THEN "false"
    ELSE noneValid_stopAtUnknown(reg, value, types, i + 1)

\* types.filter(...).length === 0, over types[i..]; "raise" when the
\* callback throws
RECURSIVE noneValid(_, _, _, _)
noneValid(reg, value, types, i) ==
    IF i > Len(types) THEN "true"
    ELSE LET r == tryIs(reg, value, types[i])
         IN IF r = "unknown" THEN "raise"
            ELSE IF r = "true"
                 THEN (IF noneValid(reg, value, types, i + 1) = "raise"
                       THEN "raise" ELSE "false")
            ELSE noneValid(reg, value, types, i + 1)

\* the string branch of validateSchemaValue
validateLeaf_markerPerSegment(reg, expected, value, fullPath, errors) ==
    IF trim(expected) = <<>>
    THEN [raised |-> FALSE,
          errors |-> Append(errors, Err("Empty type definition", fullPath, <<>>, ""))]
    ELSE LET parts == split(expected, "|")
             names == filterNonEmpty([i \in 1..Len(parts) |-> trim(parts[i])])
             types == [i \in 1..Len(names) |->
                          IF endsWith(names[i], "?") THEN sliceDropLast(names[i])
                          ELSE names[i]]
         IN IF Len(types) = 0
            THEN [raised |-> FALSE,
                  errors |-> Append(errors,
                      Err("Invalid type definition", fullPath, <<expected>>, ""))]
            ELSE LET none == noneValid(reg, value, types, 1)
                 IN IF none = "raise"
                    THEN [raised |-> TRUE, errors |-> errors]
                    ELSE IF none = "true"
                    THEN [raised |-> FALSE,
                          errors |-> Append(errors,
                              Err("Expected to be", fullPath, types, getType(value)))]
                    ELSE [raised |-> FALSE, errors |-> errors]

validateLeaf(reg, expected, value, fullPath, errors) ==
    IF trim(expected) = <<>>
    THEN [raised |-> FALSE,
          errors |-> Append(errors, Err("Empty type definition", fullPath, <<>>, ""))]
    ELSE LET parts == split(expected, "|")
             types == filterNonEmpty([i \in 1..Len(parts) |-> trim(parts[i])])
         IN IF Len(types) = 0
            THEN [raised |-> FALSE,
                  errors |-> Append(errors,
                      Err("Invalid type definition", fullPath, <<expected>>, ""))]
            ELSE LET none == noneValid(reg, value, types, 1)
                 IN IF none = "raise"
                    THEN [raised |-> TRUE, errors |-> errors]
                    ELSE IF none = "true"
                    THEN [raised |-> FALSE,
                          errors |-> Append(errors,
                              Err("Expected to be", fullPath, types, getType(value)))]
                    ELSE [raised |-> FALSE, errors |-> errors]

RECURSIVE checkStructure(_, _, _, _, _)
RECURSIVE validateSchemaValue(_, _, _, _, _, _)
RECURSIVE checkFields(_, _, _, _, _, _, _)

\* value.forEach((item, i) => try { validateSchemaValue(elementType, item,
\* `${fullPath}[${i}]`, ...) } catch { errors.push(...) }), from the
\* element at position i (one-based here, zero-based in the path)
RECURSIVE validateElems(_, _, _, _, _, _, _)
validateElems(reg, elementType, elems, fullPath, strictMode, i, errors) ==
    IF i > Len(elems) THEN errors
    ELSE LET r == validateSchemaValue(reg, elementType, elems[i],
                      elemPathOf(fullPath, i - 1), strictMode, errors)
         IN validateElems(reg, elementType, elems, fullPath, strictMode, i + 1,
                IF r.raised
                THEN Append(r.errors, Err("Array element validation failed",
                                          elemPathOf(fullPath, i - 1), <<>>, ""))
                ELSE r.errors)

\* the strict-mode check putting its errors before the errors of the fields
unexpectedKeys_first(schema, keys, path, i, errors) ==
    [j \in 1..Len(SelectSeq(keys, LAMBDA k : ~hasOwnProperty(schema, k))) |->
        Err("Unexpected key",
            fullPathOf(path, SelectSeq(keys, LAMBDA k : ~hasOwnProperty(schema, k))[j]),
            <<>>, "")] \o errors

\* the strict-mode check putting the errors of the extra keys in place of
\* the errors found so far
unexpectedKeys_replacing(schema, keys, path, i, errors) ==
    LET extra == SelectSeq(keys, LAMBDA k : ~hasOwnProperty(schema, k))
    IN IF Len(extra) = 0 THEN errors
       ELSE [j \in 1..Len(extra) |->
                Err("Unexpected key", fullPathOf(path, extra[j]), <<>>, "")]

\* Object.keys(obj).filter(k => !hasOwnProperty.call(schema, k)), then one
\* error per extra key, from the key at position i
RECURSIVE unexpectedKeys(_, _, _, _, _)
unexpectedKeys(schema, keys, path, i, errors) ==
    IF i > Len(keys) THEN errors
    ELSE unexpectedKeys(schema, keys, path, i + 1,
            IF ~hasOwnProperty(schema, keys[i])
            THEN Append(errors, Err("Unexpected key", fullPathOf(path, keys[i]), <<>>, ""))
            ELSE errors)

\* validateSchemaValue(expected, value, fullPath, strictMode, errors):
\* [raised, errors], errors being the list after the call
validateSchemaValue(reg, expected, value, fullPath, strictMode, errors) ==
    IF typeof(expected) = "string"
    THEN validateLeaf(reg, expected.v, value, fullPath, errors)
    ELSE IF isArray(expected)
    THEN IF Len(expected.v) = 0
         THEN [raised |-> FALSE,
               errors |-> Append(errors,
                   Err("Empty array schema definition", fullPath, <<>>, ""))]
         ELSE IF Len(expected.v) > 1
         THEN [raised |-> FALSE,
               errors |-> Append(errors,
                   Err("Array schema must have exactly one element", fullPath, <<>>, ""))]
         ELSE IF ~isArray(value)
         THEN [raised |-> FALSE,
               errors |-> Append(errors,
                   Err("Expected to be an array", fullPath, <<>>, getType(value)))]
         ELSE IF typeof(expected.v[1]) # "string"
         THEN [raised |-> FALSE,
               errors |-> Append(errors,
                   Err("Array element type must be a string", fullPath, <<>>, ""))]
         ELSE [raised |-> FALSE,
               errors |-> validateElems(reg, expected.v[1], value.v, fullPath,
                                       strictMode, 1, errors)]
    ELSE IF typeof(expected) = "object" /\ expected.t # "null" /\ ~isArray(expected)
    THEN IF typeof(value) # "object" \/ value.t = "null" \/ isArray(value)
         THEN [raised |-> FALSE,
               errors |-> Append(errors,
                   Err("Expected to be an object", fullPath, <<>>, getType(value)))]
         ELSE LET nested == checkStructure(reg, expected, value, fullPath, strictMode)
              IN IF nested.raised
                 THEN [raised |-> TRUE, errors |-> errors]
                 ELSE [raised |-> FALSE, errors |-> errors \o nested.errors]
    ELSE [raised |-> FALSE,
          errors |-> Append(errors,
              Err("Invalid schema definition", fullPath, <<>>,
                  IF expected.t = "null" THEN "null" ELSE typeof(expected)))]

\* the field loop without `if (value === null && isOptional) continue`
RECURSIVE checkFields_nullChecked(_, _, _, _, _, _, _)
checkFields_nullChecked(reg, schema, obj, path, strictMode, i, errors) ==
    IF i > Len(schema.v)
    THEN [raised |-> FALSE,
          errors |-> IF strictMode
                     THEN unexpectedKeys(schema, keysOf(obj), path, 1, errors)
                     ELSE errors]
    ELSE
      LET key == schema.v[i].k
          expected == schema.v[i].v
          value == getProp(obj, key)
          fullPath == fullPathOf(path, key)
          isOptional == typeof(expected) = "string" /\ endsWith(expected.v, "?")
          baseExpected == IF isOptional THEN Str(sliceDropLast(expected.v))
                          ELSE expected
      IN IF value.t = "undefined"
         THEN checkFields_nullChecked(reg, schema, obj, path, strictMode, i + 1,
                  IF ~isOptional
                  THEN Append(errors, Err("Missing required key", fullPath, <<>>, ""))
                  ELSE errors)
         ELSE checkFields_nullChecked(reg, schema, obj, path, strictMode, i + 1,
                  validateSchemaValue(reg, baseExpected, value, fullPath,
                                      strictMode, errors).errors)

\* the field loop telling a missing field by the absence of its key
RECURSIVE checkFields_byKey(_, _, _, _, _, _, _)
checkFields_byKey(reg, schema, obj, path, strictMode, i, errors) ==
    IF i > Len(schema.v)
    THEN [raised |-> FALSE,
          errors |-> IF strictMode
                     THEN unexpectedKeys(schema, keysOf(obj), path, 1, errors)
                     ELSE errors]
    ELSE
      LET key == schema.v[i].k
          expected == schema.v[i].v
          value == getProp(obj, key)
          fullPath == fullPathOf(path, key)
          isOptional == typeof(expected) = "string" /\ endsWith(expected.v, "?")
          baseExpected == IF isOptional THEN Str(sliceDropLast(expected.v))
                          ELSE expected
      IN IF ~hasOwnProperty(obj, key)
         THEN checkFields_byKey(reg, schema, obj, path, strictMode, i + 1,
                  IF ~isOptional
                  THEN Append(errors, Err("Missing required key", fullPath, <<>>, ""))
                  ELSE errors)
         ELSE IF value.t = "null" /\ isOptional
         THEN checkFields_byKey(reg, schema, obj, path, strictMode, i + 1, errors)
         ELSE checkFields_byKey(reg, schema, obj, path, strictMode, i + 1,
                  validateSchemaValue(reg, baseExpected, value, fullPath,
                                      strictMode, errors).errors)

\* the loop `for (const key of Object.keys(schema))` from the key at
\* position i, then the strict-mode check: [raised, errors]
checkFields(reg, schema, obj, path, strictMode, i, errors) ==
    IF i > Len(schema.v)
    THEN IF strictMode
         THEN IF obj.t \in {"null", "undefined"}
              THEN [raised |-> TRUE, errors |-> errors]
              ELSE [raised |-> FALSE,
                    errors |-> unexpectedKeys(schema, keysOf(obj), path, 1, errors)]
         ELSE [raised |-> FALSE, errors |-> errors]
    ELSE IF obj.t \in {"null", "undefined"}
    THEN \* obj[key] throws a TypeError
         [raised |-> TRUE, errors |-> errors]
    ELSE
      LET key == schema.v[i].k
          expected == schema.v[i].v
          value == getProp(obj, key)
          fullPath == fullPathOf(path, key)
          isOptional == typeof(expected) = "string" /\ endsWith(expected.v, "?")
          baseExpected == IF isOptional THEN Str(sliceDropLast(expected.v))
                          ELSE expected
      IN IF value.t = "undefined"
         THEN checkFields(reg, schema, obj, path, strictMode, i + 1,
                  IF ~isOptional
                  THEN Append(errors, Err("Missing required key", fullPath, <<>>, ""))
                  ELSE errors)
         ELSE IF value.t = "null" /\ isOptional
         THEN checkFields(reg, schema, obj, path, strictMode, i + 1, errors)
         ELSE LET r == validateSchemaValue(reg, baseExpected, value, fullPath,
                                           strictMode, errors)
              IN checkFields(reg, schema, obj, path, strictMode, i + 1,
                     IF r.raised
                     THEN Append(r.errors, Err("Validation error at", fullPath, <<>>, ""))
                     ELSE r.errors)

\* checkStructure computing isValid before the strict-mode check has run
checkStructure_validBeforeStrict(reg, schema, obj, path, strictMode) ==
    IF ~truthy(schema) \/ typeof(schema) # "object" \/ isArray(schema)
    THEN [raised |-> FALSE, isValid |-> FALSE,
          errors |-> <<Err("Invalid schema", <<>>, <<>>, "")>>]
    ELSE IF ~truthy(obj) \/ typeof(obj) # "object" \/ isArray(obj)
    THEN [raised |-> FALSE, isValid |-> FALSE,
          errors |-> <<Err("Invalid object", <<>>, <<>>, getType(obj))>>]
    ELSE LET r == checkFields(reg, schema, obj, path, strictMode, 1, <<>>)
             declared == checkFields(reg, schema, obj, path, FALSE, 1, <<>>)
         IN [raised |-> r.raised, isValid |-> Len(declared.errors) = 0,
             errors |-> r.errors]

\* checkStructure without the guard on obj
checkStructure_noObjGuard(reg, schema, obj, path, strictMode) ==
    IF ~truthy(schema) \/ typeof(schema) # "object" \/ isArray(schema)
    THEN [raised |-> FALSE, isValid |-> FALSE,
          errors |-> <<Err("Invalid schema", <<>>, <<>>, "")>>]
    ELSE LET r == checkFields(reg, schema, obj, path, strictMode, 1, <<>>)
         IN [raised |-> r.raised, isValid |-> Len(r.errors) = 0, errors |-> r.errors]

\* checkStructure(schema, obj, path, strictMode): [raised, isValid, errors];
\* raised tells that the call threw instead of returning a result
checkStructure(reg, schema, obj, path, strictMode) ==
    IF ~truthy(schema) \/ typeof(schema) # "object" \/ isArray(schema)
    THEN [raised |-> FALSE, isValid |-> FALSE,
          errors |-> <<Err("Invalid schema", <<>>, <<>>, "")>>]
    ELSE IF ~truthy(obj) \/ typeof(obj) # "object" \/ isArray(obj)
    THEN [raised |-> FALSE, isValid |-> FALSE,
          errors |-> <<Err("Invalid object", <<>>, <<>>, getType(obj))>>]
    ELSE LET r == checkFields(reg, schema, obj, path, strictMode, 1, <<>>)
         IN [raised |-> r.raised, isValid |-> Len(r.errors) = 0, errors |-> r.errors]

\* the largest member of a non-empty finite set of naturals
Max(S) == CHOOSE n \in S : \A m \in S : m <= n

\* calls nested along the value: one more for every plain object held by
\* a field of obj, whatever the schema declares
RECURSIVE recursionDepth_alongValue(_, _)
recursionDepth_alongValue(schema, obj) ==
    IF obj.t # "object" THEN 1
    ELSE 1 + Max({0} \cup
                 {recursionDepth_alongValue(schema, obj.v[i].v) :
                     i \in {j \in 1..Len(obj.v) : obj.v[j].v.t = "object"}})

\* the number of checkStructure calls on the stack at the deepest point of
\* checkStructure(schema, obj, ...): the call itself, and below it the
\* calls made by validateSchemaValue for the fields whose schema node is
\* an object and whose value is a plain object
RECURSIVE recursionDepth(_, _)
recursionDepth(schema, obj) ==
    IF ~truthy(schema) \/ typeof(schema) # "object" \/ isArray(schema) THEN 1
    ELSE IF ~truthy(obj) \/ typeof(obj) # "object" \/ isArray(obj) THEN 1
    ELSE 1 + Max({0} \cup
                 {recursionDepth(schema.v[i].v, getProp(obj, schema.v[i].k)) :
                     i \in {j \in 1..Len(schema.v) :
                              /\ schema.v[j].v.t = "object"
                              /\ getProp(obj, schema.v[j].k).t = "object"}})

(***************************************************************************)
(* Inputs                                                                  *)
(***************************************************************************)
\* the longest array among the candidate values
MaxArrLen == 2

N_number == <<"n","u","m","b","e","r">>
N_undefined == <<"u","n","d","e","f","i","n","e","d">>
N_null == <<"n","u","l","l">>
N_object == <<"o","b","j","e","c","t">>
\* a name callers register, and a name nobody registers
N_x == <<"x">>
N_z == <<"z">>
N_json == <<"j","s","o","n">>
N_j == <<"j">>

K_a == <<"a">>
K_b == <<"b">>
K_c == <<"c">>
K_k == <<"k">>
K_empty == <<>>

Optional(type) == type \o <<"?">>
Union(t1, t2) == t1 \o <<"|">> \o t2

\* type expressions of one registered or registrable name each
SingleTypes == {N_string, N_number, N_undefined, N_null, N_object, N_x}

\* the type expressions of the leaves
LeafTypes ==
    SingleTypes
    \cup {Optional(t) : t \in {N_string, N_number, N_undefined, N_x}}
    \cup {Union(N_string, N_number), Union(N_number, N_string),
          <<" ", "N", "u", "m", "b", "e", "r", " ", "|", " ", "z", " ">>,
          Union(N_z, N_string), Optional(Union(N_string, N_null)),
          N_z, Optional(N_z), N_constructor,
          <<>>, <<" ">>, <<"|">>, <<"?">>, <<"|", "?">>,
          <<"s","t","r","i","n","g","|","|","n","u","m","b","e","r">>,
          <<" ">> \o N_number \o <<" ", "|", " ">> \o N_string \o <<" ">>,
          Union(N_undefined, N_string), Union(N_string, N_undefined),
          Union(Optional(N_string), N_number)}

\* the leaves of the two-field schemas
FewLeafTypes ==
    {N_string, N_undefined, Optional(N_number), Union(N_string, N_null), N_x, N_z}

S_ok == Str(<<"o", "k">>)

\* what a field of a candidate object may hold
Scalars == {Undef, Null, S_ok, Num(1)}

\* what an element of a candidate array may be
Elements == {Null, S_ok, Num(1)}

Absent == [t |-> "absent", v |-> 0]

\* no own property, or the own property key: val
PropOrNone(key, val) == IF val = Absent THEN <<>> ELSE <<Prop(key, val)>>

ArrayValues ==
    {Arr(e) : e \in UNION {[1..n -> Elements] : n \in 0..MaxArrLen}}

\* schemas of one leaf
OneLeafSchemas ==
    {Obj(<<Prop(K_a, Str(t))>>) : t \in LeafTypes}
    \cup {Obj(<<Prop(K_k, Str(Optional(t)))>>) : t \in SingleTypes}
    \cup {Obj(<<>>), Obj(<<Prop(N_constructor, Str(Optional(N_string)))>>)}

\* candidate objects for them
OneFieldObjects ==
    {Obj(PropOrNone(k, a) \o PropOrNone(K_c, c)) :
        k \in {K_a, K_k}, a \in Scalars \cup {Absent}, c \in {Absent, Num(1)}}

\* schemas of two leaves
TwoLeafSchemas ==
    {Obj(<<Prop(K_a, Str(t)), Prop(K_b, Str(u))>>) : t, u \in FewLeafTypes}

\* candidate objects for them
TwoFieldObjects ==
    {Obj(PropOrNone(K_a, a) \o PropOrNone(K_b, b) \o PropOrNone(K_c, c)) :
        a \in Scalars \cup {Absent}, b \in Scalars \cup {Absent},
        c \in {Absent, Num(1)}}

\* array-of schema nodes, well formed and malformed
ArraySchemaNodes ==
    {Arr(<<Str(t)>>) : t \in {N_string, N_number, Union(N_string, N_null), N_x,
                              Optional(N_string), N_z}}
    \cup {Arr(<<>>), Arr(<<Str(N_string), Str(N_number)>>), Arr(<<Num(1)>>),
          Arr(<<Arr(<<Str(N_string)>>)>>)}

\* nested object schemas, two and three levels deep
NestedSchemaNodes ==
    {Obj(<<Prop(k, Str(t))>>) : k \in {K_b, K_empty},
                                t \in {N_number, Optional(N_string), N_z}}
    \cup {Obj(<<Prop(K_b, Str(N_string)), Prop(K_c, Str(N_number))>>),
          Obj(<<Prop(K_b, Arr(<<Str(N_number)>>))>>),
          Obj(<<Prop(K_b, Obj(<<Prop(K_c, Str(N_number))>>))>>),
          Obj(<<>>)}

\* schema nodes that are neither string, array nor object
BadSchemaNodes == {Num(1), Null, Undef, Bool(TRUE)}

DeepSchemas ==
    {Obj(<<Prop(K_a, n)>>) :
        n \in ArraySchemaNodes \cup NestedSchemaNodes \cup BadSchemaNodes}
    \cup {Obj(<<Prop(K_a, n), Prop(K_b, Str(N_string))>>) :
             n \in {Arr(<<Str(N_number)>>), Obj(<<Prop(K_b, Str(N_number))>>)}}

\* schemas with an empty key
EmptyKeySchemas ==
    {Obj(<<Prop(K_empty, n)>>) :
        n \in {Str(N_number), Arr(<<Str(N_number)>>),
               Obj(<<Prop(K_b, Str(N_number))>>),
               Obj(<<Prop(K_empty, Str(N_number))>>)}}

\* the objects nested in candidate values
InnerObjects ==
    {Obj(PropOrNone(K_b, b) \o PropOrNone(K_c, c)) :
        b \in {Absent, S_ok, Num(1), Arr(<<S_ok, Num(1)>>),
               Obj(<<Prop(K_c, S_ok)>>), Obj(<<Prop(K_c, Num(1)), Prop(K_a, S_ok)>>)},
        c \in {Absent, S_ok}}
    \cup {Obj(<<Prop(K_empty, S_ok)>>), Obj(<<Prop(K_empty, Num(1)), Prop(K_a, Null)>>)}

DeepObjects ==
    {Obj(PropOrNone(K_a, a) \o PropOrNone(K_c, c)) :
        a \in {Absent, Null, S_ok} \cup ArrayValues \cup InnerObjects,
        c \in {Absent, Num(1)}}

\* candidate objects with an empty key
EmptyKeyObjects ==
    {Obj(<<Prop(K_empty, a)>>) :
        a \in {S_ok, Arr(<<S_ok>>), Obj(<<Prop(K_b, S_ok), Prop(K_c, S_ok)>>),
               Obj(<<Prop(K_empty, S_ok), Prop(K_c, S_ok)>>)}}

\* arguments that are not plain objects
NonObjects == {Null, Undef, Arr(<<>>), Arr(<<S_ok>>), S_ok, Str(<<>>), Num(1),
               Num(0), Bool(FALSE), Fn("f")}

Call(schema, obj, path, strictMode) ==
    [op |-> "checkStructure", schema |-> schema, obj |-> obj, path |-> path,
     strictMode |-> strictMode]

\* the calls of checkStructure
CSCalls ==
    {Call(s, o, <<>>, m) : s \in OneLeafSchemas, o \in OneFieldObjects,
                            m \in BOOLEAN}
    \cup {Call(s, o, <<>>, m) : s \in TwoLeafSchemas, o \in TwoFieldObjects,
                                m \in BOOLEAN}
    \cup {Call(s, o, <<>>, m) : s \in DeepSchemas, o \in DeepObjects,
                                m \in BOOLEAN}
    \cup {Call(s, o, p, m) : s \in EmptyKeySchemas, o \in EmptyKeyObjects,
                             p \in {<<>>, <<"p">>}, m \in BOOLEAN}
    \cup {Call(Obj(<<Prop(K_a, s)>>), Obj(<<Prop(K_a, o)>>), <<"p">>, m) :
             s \in NestedSchemaNodes, o \in InnerObjects, m \in BOOLEAN}
    \cup {Call(s, o, <<>>, m) :
             s \in NonObjects,
             o \in NonObjects \cup {Obj(<<>>), Obj(<<Prop(K_a, S_ok)>>)},
             m \in BOOLEAN}
    \cup {Call(s, o, <<>>, m) :
             s \in {Obj(<<>>), Obj(<<Prop(K_a, Str(N_string))>>),
                    Obj(<<Prop(K_a, Str(Optional(N_string)))>>)},
             o \in NonObjects, m \in BOOLEAN}

\* the registries checkStructure is called on: the fresh one, and the
\* fresh one after a registerType("x", v)
CSRegistries ==
    {FreshTypesMap}
    \cup {registerType(FreshTypesMap, N_x, "vStr", FALSE).map}

\* the names passed to the registry operations
RegNames == {N_x, <<" ", "X", " ">>, N_constructor, N_string}

\* the validators passed to registerType
RegValidators == {"vAny", "vStr", "vLower"}

\* a string with an upper-case letter
S_Up == Str(<<"O", "k">>)

\* a string that is a JSON text
S_one == Str(<<"1">>)

\* the values given to is and isType
MatchValues == {S_ok, Num(1), S_Up, S_one}

\* the lists of type names given to is and isType
TypeLists ==
    {<<n>> : n \in RegNames \cup {N_z}}
    \cup {<<N_string, N_z>>, <<N_z, N_string>>, <<N_number, N_x>>,
          <<N_number, N_null>>, <<N_null, N_number>>,
          <<N_json>>, <<N_j>>}

\* the texts given to importTypes
ImportPayloads ==
    {<<"[">> \o quote(n) \o <<"]">> : n \in RegNames \cup {N_z}}
    \cup {<<"[">> \o quote(N_string) \o <<",">> \o quote(N_z) \o <<"]">>,
          <<"[">> \o quote(N_z) \o <<",">> \o quote(N_z) \o <<"]">>,
          <<"[", "1", "]">>, <<"[", "n", "u", "l", "l", "]">>, <<"[", "]">>,
          <<"{", "}">>, <<"[">>, quote(N_x), <<"1">>}

\* the calls of checkStructure made between registry operations
RegistryCSCalls ==
    {Call(Obj(<<Prop(K_a, Str(t))>>), Obj(<<Prop(K_a, v)>>), <<>>, FALSE) :
        t \in {N_x, N_string}, v \in {S_ok, Num(1)}}

\* the schemas and objects given to validate
ValidateSchemas ==
    {Obj(<<Prop(K_a, Str(N_x))>>),
     Obj(<<Prop(K_a, Arr(<<Str(N_number), Str(N_string)>>)),
           Prop(K_b, Str(N_number))>>)}

ValidateObjects == {Obj(<<Prop(K_a, S_ok)>>), Obj(<<Prop(K_a, Num(1)), Prop(K_b, Null)>>)}

(***************************************************************************)
(* The specifications                                                      *)
(***************************************************************************)
NoArgs == [op |-> "none"]
NoRet == [done |-> FALSE]

\* a fresh Typer, no operation called yet
Init ==
    /\ typesMap = FreshTypesMap
    /\ args = NoArgs
    /\ ret = NoRet

RegisterType(name, validator, override) ==
    LET r == registerType(typesMap, name, validator, override)
    IN /\ typesMap' = r.map
       /\ args' = [op |-> "registerType", name |-> name,
                   validator |-> validator, override |-> override]
       /\ ret' = [done |-> TRUE, raised |-> r.raised]

UnregisterType(name) ==
    LET r == unregisterType(typesMap, name)
    IN /\ typesMap' = r.map
       /\ args' = [op |-> "unregisterType", name |-> name]
       /\ ret' = [done |-> TRUE, raised |-> r.raised]

ListTypes ==
    /\ args' = [op |-> "listTypes"]
    /\ ret' = [done |-> TRUE, raised |-> "none", value |-> listTypes(typesMap)]
    /\ UNCHANGED typesMap

Is(value, types) ==
    /\ args' = [op |-> "is", value |-> value, types |-> types]
    /\ ret' = [done |-> TRUE, value |-> is(typesMap, value, types)]
    /\ UNCHANGED typesMap

IsType(types, value) ==
    LET r == isType(typesMap, types, value)
    IN /\ args' = [op |-> "isType", types |-> types, value |-> value]
       /\ ret' = [done |-> TRUE, result |-> r]
       /\ UNCHANGED typesMap

ExportTypes ==
    /\ args' = [op |-> "exportTypes"]
    /\ ret' = [done |-> TRUE, raised |-> "none", value |-> exportTypes(typesMap)]
    /\ UNCHANGED typesMap

ImportTypes(json) ==
    LET r == importTypes(typesMap, json)
    IN /\ typesMap' = r.map
       /\ args' = [op |-> "importTypes", json |-> json]
       /\ ret' = [done |-> TRUE, raised |-> r.raised, warnings |-> r.warnings]

\* a checkStructure call on the registry as it is
CheckStructureCall(call) ==
    LET r == checkStructure(typesMap, call.schema, call.obj, call.path,
                            call.strictMode)
    IN /\ args' = call
       /\ ret' = [done |-> TRUE, raised |-> r.raised, isValid |-> r.isValid,
                  errors |-> r.errors]
       /\ UNCHANGED typesMap

Validate(schema, obj) ==
    LET r == validate(typesMap, schema, obj)
    IN /\ args' = [op |-> "validate", schema |-> schema, obj |-> obj]
       /\ ret' = [done |-> TRUE, raised |-> r.raised, errors |-> r.errors]
       /\ UNCHANGED typesMap

Next ==
    \/ \E name \in RegNames, v \in RegValidators, o \in BOOLEAN :
          RegisterType(name, v, o)
    \/ \E name \in RegNames : UnregisterType(name)
    \/ ListTypes
    \/ \E value \in MatchValues, types \in TypeLists : Is(value, types)
    \/ \E types \in TypeLists, value \in MatchValues : IsType(types, value)
    \/ ExportTypes
    \/ \E json \in ImportPayloads : ImportTypes(json)
    \/ \E call \in RegistryCSCalls : CheckStructureCall(call)
    \/ \E schema \in ValidateSchemas, obj \in ValidateObjects :
          Validate(schema, obj)

Spec == Init /\ [][Next]_vars

\* a checkStructure call about to be made on one of the registries
InitCS ==
    /\ typesMap \in CSRegistries
    /\ args \in CSCalls
    /\ ret = NoRet

CheckStructure ==
    /\ args.op = "checkStructure"
    /\ ~ret.done
    /\ LET r == checkStructure(typesMap, args.schema, args.obj, args.path,
                               args.strictMode)
       IN ret' = [done |-> TRUE, again |-> FALSE, raised |-> r.raised,
                  isValid |-> r.isValid, errors |-> r.errors]
    /\ UNCHANGED <<typesMap, args>>

\* a second call whose errors array is the one the first call filled
CheckStructureAgain_sharedErrors ==
    /\ args.op = "checkStructure"
    /\ ret.done /\ ~ret.again
    /\ LET r == checkStructure(typesMap, args.schema, args.obj, args.path,
                               args.strictMode)
       IN ret' = [done |-> TRUE, again |-> TRUE, raised |-> r.raised,
                  isValid |-> r.isValid, errors |-> ret.errors \o r.errors]
    /\ UNCHANGED <<typesMap, args>>

\* the same call made a second time, right after the first returned
CheckStructureAgain ==
    /\ args.op = "checkStructure"
    /\ ret.done /\ ~ret.again
    /\ LET r == checkStructure(typesMap, args.schema, args.obj, args.path,
                               args.strictMode)
       IN ret' = [done |-> TRUE, again |-> TRUE, raised |-> r.raised,
                  isValid |-> r.isValid, errors |-> r.errors]
    /\ UNCHANGED <<typesMap, args>>

NextCS == CheckStructure \/ CheckStructureAgain

SpecCS == InitCS /\ [][NextCS]_vars

(***************************************************************************)
(* Properties of checkStructure, under SpecCS                              *)
(***************************************************************************)
Returned == ret.done /\ args.op = "checkStructure" /\ ~ret.raised

\* the number of entries of errs that satisfy P
CountIf(errs, P(_)) == Cardinality({i \in 1..Len(errs) : P(errs[i])})

\* the plain-object fields of obj whose schema node is an object: the
\* pairs <<schema, obj, path>> of the recursive calls made by a call
NestedCalls(schema, obj, path) ==
    {<<schema.v[i].v, getProp(obj, schema.v[i].k), fullPathOf(path, schema.v[i].k)>> :
        i \in {j \in 1..Len(schema.v) :
                 /\ schema.v[j].v.t = "object"
                 /\ getProp(obj, schema.v[j].k).t = "object"}}

\* C1: the result of checkStructure has isValid = (errors is empty), for
\* the results of the top-level guards, of the field loop, and of the
\* recursive calls made for nested object schemas.
C1_IsValidIffNoErrors ==
    (ret.done /\ args.op = "checkStructure") =>
        /\ ~ret.raised
        /\ ret.isValid = (ret.errors = <<>>)
        /\ (args.schema.t = "object" /\ args.obj.t = "object") =>
              \A c \in NestedCalls(args.schema, args.obj, args.path) :
                 LET n == checkStructure(typesMap, c[1], c[2], c[3], args.strictMode)
                 IN n.isValid = (n.errors = <<>>)

\* a nested recursive call returned errors, spliced into the result
C1_Witness ==
    /\ Returned /\ ~ret.isValid
    /\ args.schema.t = "object" /\ args.obj.t = "object"
    /\ \E c \in NestedCalls(args.schema, args.obj, args.path) :
          checkStructure(typesMap, c[1], c[2], c[3], args.strictMode).errors # <<>>

\* C8: a schema argument that is null, an array or not an object gives
\* isValid = false with the one error "Invalid schema"; an acceptable
\* schema with a value argument that is null, an array or not an object
\* gives isValid = false with the one error "Invalid object" naming the
\* kind of the value: null, array, or its primitive type.
C8_TopLevelGuards ==
    (ret.done /\ args.op = "checkStructure") =>
        /\ args.schema.t # "object" =>
              /\ ~ret.raised /\ ~ret.isValid
              /\ ret.errors = <<Err("Invalid schema", <<>>, <<>>, "")>>
        /\ (args.schema.t = "object" /\ args.obj.t # "object") =>
              /\ ~ret.raised /\ ~ret.isValid
              /\ Len(ret.errors) = 1
              /\ ret.errors[1].kind = "Invalid object"
              /\ ret.errors[1].got = args.obj.t

\* a schema with a field was given an array as the value argument
C8_Witness ==
    /\ Returned
    /\ args.schema.t = "object" /\ Len(args.schema.v) > 0
    /\ args.obj.t = "array"
    /\ ret.errors[1].got = "array"

\* the optional marker of a leaf, and the leaf without it
LeafOptional(leaf) == leaf # <<>> /\ leaf[Len(leaf)] = "?"
LeafBase(leaf) == IF LeafOptional(leaf) THEN SubSeq(leaf, 1, Len(leaf) - 1) ELSE leaf

\* the non-empty trimmed segments of a type expression
Segments(expr) ==
    {trim(split(expr, "|")[i]) : i \in 1..Len(split(expr, "|"))} \ {<<>>}

\* the type named by segment seg accepts v
SegmentAccepts(reg, seg, v) ==
    /\ lookup(reg, normalize(seg)) # "undefined"
    /\ accepts(reg, lookup(reg, normalize(seg)), v, FALSE)

\* a present value v matches the leaf: some segment accepts it, or the leaf
\* is optional and v is null
Matches(reg, leaf, v) ==
    \/ LeafOptional(leaf) /\ v.t = "null"
    \/ \E seg \in Segments(LeafBase(leaf)) : SegmentAccepts(reg, seg, v)

\* the call is on a schema of string leaves only and a plain object
LeafCall ==
    /\ Returned
    /\ args.schema.t = "object" /\ args.obj.t = "object"
    /\ \A i \in 1..Len(args.schema.v) : args.schema.v[i].v.t = "string"

\* the path of the top-level field key of the call
TopPath(key) == IF args.path = <<>> THEN key ELSE args.path \o <<".">> \o key

\* the number of errors of the result at the path of field i of the schema
ErrorsAtField(i) ==
    Cardinality({j \in 1..Len(ret.errors) :
                   ret.errors[j].path = TopPath(args.schema.v[i].k)})

\* C2 as stated: missing means that the key is not present in the value.
\* For a schema of string leaves the result holds exactly one error for
\* each field that is missing and required, or present and not matching,
\* and none for any other field.
C2_Claim ==
    LeafCall =>
        \A i \in 1..Len(args.schema.v) :
            LET key == args.schema.v[i].k
                leaf == args.schema.v[i].v.v
                present == hasOwnProperty(args.obj, key)
                fails == \/ ~present /\ ~LeafOptional(leaf)
                         \/ present /\ ~Matches(typesMap, leaf, getProp(args.obj, key))
            IN ErrorsAtField(i) = IF fails THEN 1 ELSE 0

\* C2 as amended: a field is missing when the value read at its key is
\* undefined (the key is absent, or present and holding undefined).  For a
\* schema of string leaves the result holds exactly one error for each
\* field that is missing and required, or not missing and not matching, and
\* none for any other field; so every field is examined after earlier
\* fields failed.
C2_ErrorPerFailingField ==
    LeafCall =>
        \A i \in 1..Len(args.schema.v) :
            LET key == args.schema.v[i].k
                leaf == args.schema.v[i].v.v
                value == getProp(args.obj, key)
                missing == value.t = "undefined"
                fails == \/ missing /\ ~LeafOptional(leaf)
                         \/ ~missing /\ ~Matches(typesMap, leaf, value)
            IN ErrorsAtField(i) = IF fails THEN 1 ELSE 0

\* both fields of a two-field schema failed, and both are reported
C2_Witness ==
    /\ LeafCall
    /\ Len(args.schema.v) = 2
    /\ ErrorsAtField(1) = 1 /\ ErrorsAtField(2) = 1
    /\ hasOwnProperty(args.obj, K_a) /\ ~hasOwnProperty(args.obj, K_b)

\* C3: checkStructure returns a result for every schema and value, and a
\* present value that no segment of its leaf accepts (an unregistered type
\* name, a validator that throws, a malformed leaf) is reported as an entry
\* of errors at the path of the field.
C3_NeverRaises ==
    (ret.done /\ args.op = "checkStructure") =>
        /\ ~ret.raised
        /\ ret.isValid \in BOOLEAN
        /\ LeafCall =>
              \A i \in 1..Len(args.schema.v) :
                  LET value == getProp(args.obj, args.schema.v[i].k)
                  IN (/\ value.t \notin {"undefined", "null"}
                      /\ ~Matches(typesMap, args.schema.v[i].v.v, value))
                        => ErrorsAtField(i) >= 1

\* the validator registered under x threw for the value of a field
C3_Witness ==
    /\ LeafCall
    /\ N_x \in DOMAIN typesMap
    /\ Len(args.schema.v) = 1 /\ args.schema.v[1].v.v = N_x
    /\ getProp(args.obj, args.schema.v[1].k) = Num(1)
    /\ ErrorsAtField(1) = 1

\* the call is checkStructure({k: T + "?"}, obj) for a registered type T
OptionalCall(T) ==
    /\ Returned
    /\ normalize(T) \in listTypes(typesMap)
    /\ args.schema = Obj(<<Prop(K_k, Str(Optional(T)))>>)

\* C4 as stated: {k: T?} accepts {} and {k: null}, and rejects {k: v} for
\* every v other than null that T does not accept.
C4_Claim ==
    \A T \in SingleTypes :
        OptionalCall(T) =>
            /\ args.obj = Obj(<<>>) => ret.isValid /\ ret.errors = <<>>
            /\ args.obj = Obj(<<Prop(K_k, Null)>>) => ret.isValid /\ ret.errors = <<>>
            /\ \A v \in Scalars :
                 (/\ args.obj = Obj(<<Prop(K_k, v)>>)
                  /\ v.t # "null"
                  /\ ~SegmentAccepts(typesMap, T, v)) => ~ret.isValid

\* C4 as amended: {k: T?} accepts {} and {k: null}, and rejects {k: v} for
\* every v other than null and undefined that T does not accept.
C4_OptionalFieldLaw ==
    \A T \in SingleTypes :
        OptionalCall(T) =>
            /\ args.obj = Obj(<<>>) => ret.isValid /\ ret.errors = <<>>
            /\ args.obj = Obj(<<Prop(K_k, Null)>>) => ret.isValid /\ ret.errors = <<>>
            /\ \A v \in Scalars :
                 (/\ args.obj = Obj(<<Prop(K_k, v)>>)
                  /\ v.t \notin {"null", "undefined"}
                  /\ ~SegmentAccepts(typesMap, T, v)) => ~ret.isValid

\* the optional field held null and was accepted
C4_Witness ==
    /\ OptionalCall(N_string)
    /\ args.obj = Obj(<<Prop(K_k, Null)>>)
    /\ ret.isValid

\* the call is checkStructure({a: [T]}, {a: array, ...}) with every segment
\* of T a registered type name
ArrayOfCall ==
    /\ Returned
    /\ args.schema.t = "object" /\ Len(args.schema.v) = 1
    /\ args.schema.v[1].k = K_a
    /\ args.schema.v[1].v.t = "array" /\ Len(args.schema.v[1].v.v) = 1
    /\ args.schema.v[1].v.v[1].t = "string"
    /\ Segments(args.schema.v[1].v.v[1].v) # {}
    /\ \A seg \in Segments(args.schema.v[1].v.v[1].v) :
          normalize(seg) \in listTypes(typesMap)
    /\ args.obj.t = "object" /\ getProp(args.obj, K_a).t = "array"

\* "f[i]" for the top-level field a and the index i < 10
ElemPath(i) == TopPath(K_a) \o <<"[", Digit[i + 1], "]">>

\* C6: for {f: [T]} and an array at f, the result holds exactly one error
\* for each index whose element does not match T, naming f[i] with i
\* counted from zero, none for an element that matches, and none at f.
C6_ArrayElementErrors ==
    ArrayOfCall =>
        LET T == args.schema.v[1].v.v[1].v
            elems == getProp(args.obj, K_a).v
            at(p) == Cardinality({j \in 1..Len(ret.errors) : ret.errors[j].path = p})
        IN /\ at(TopPath(K_a)) = 0
           /\ \A n \in 1..Len(elems) :
                 at(ElemPath(n - 1)) =
                    IF \E seg \in Segments(T) : SegmentAccepts(typesMap, seg, elems[n])
                    THEN 0 ELSE 1
           /\ at(ElemPath(Len(elems))) = 0

\* ["string"] against ["ok", 1]: one error, at index 1
C6_Witness ==
    /\ ArrayOfCall
    /\ args.schema.v[1].v.v[1].v = N_string
    /\ getProp(args.obj, K_a) = Arr(<<S_ok, Num(1)>>)
    /\ Cardinality({j \in 1..Len(ret.errors) : ret.errors[j].path = ElemPath(1)}) = 1

\* k1.k2.….kn for the sequence of keys <<k1, ..., kn>>
RECURSIVE Dotted(_)
Dotted(keys) ==
    IF keys = <<>> THEN <<>>
    ELSE IF Len(keys) = 1 THEN keys[1]
    ELSE keys[1] \o <<".">> \o Dotted(Tail(keys))

\* the keys a top-level call starts from: none, or its path argument
TopKeys == IF args.path = <<>> THEN <<>> ELSE <<args.path>>

IsPrefix(p, q) == Len(p) <= Len(q) /\ SubSeq(q, 1, Len(p)) = p

\* the dotted paths of what a call examines below the keys `keys`: the
\* declared fields, the elements of their arrays, the keys of obj, and the
\* same for every nested object schema whose value is a plain object
RECURSIVE ExaminedPaths(_, _, _)
ExaminedPaths(schema, obj, keys) ==
    {Dotted(Append(keys, schema.v[i].k)) : i \in 1..Len(schema.v)}
    \cup {Dotted(Append(keys, obj.v[i].k)) : i \in 1..Len(obj.v)}
    \cup UNION {
           LET node == schema.v[i].v
               value == getProp(obj, schema.v[i].k)
               here == Append(keys, schema.v[i].k)
           IN IF node.t = "array" /\ value.t = "array"
              THEN {Dotted(here) \o <<"[", Digit[n], "]">> : n \in 1..Len(value.v)}
              ELSE IF node.t = "object" /\ value.t = "object"
              THEN ExaminedPaths(node, value, here)
              ELSE {} : i \in 1..Len(schema.v)}

\* the recursive calls of a call, at every depth: <<schema, obj, path>>
RECURSIVE AllNestedCalls(_, _, _)
AllNestedCalls(schema, obj, path) ==
    NestedCalls(schema, obj, path)
    \cup UNION {AllNestedCalls(c[1], c[2], c[3]) : c \in NestedCalls(schema, obj, path)}

\* C5 as stated: every error names the dotted path k1.k2.….kn of the keys
\* that lead to what it is about, and a recursive call made with path p
\* only emits errors whose path starts with p followed by ".".
C5_Claim ==
    (Returned /\ args.schema.t = "object" /\ args.obj.t = "object") =>
        /\ \A j \in 1..Len(ret.errors) :
              ret.errors[j].path \in ExaminedPaths(args.schema, args.obj, TopKeys)
        /\ \A c \in AllNestedCalls(args.schema, args.obj, args.path) :
              LET n == checkStructure(typesMap, c[1], c[2], c[3], args.strictMode)
              IN \A j \in 1..Len(n.errors) :
                    IsPrefix(c[3] \o <<".">>, n.errors[j].path)

\* the dotted paths of the keys of obj that the schema does not declare, at
\* the level below `keys` and at every nested level the recursion reaches
RECURSIVE UndeclaredPaths(_, _, _)
UndeclaredPaths(schema, obj, keys) ==
    {Dotted(Append(keys, obj.v[i].k)) :
        i \in {j \in 1..Len(obj.v) :
                 \A f \in 1..Len(schema.v) : schema.v[f].k # obj.v[j].k}}
    \cup UNION {
           LET node == schema.v[i].v
               value == getProp(obj, schema.v[i].k)
           IN IF node.t = "object" /\ value.t = "object"
              THEN UndeclaredPaths(node, value, Append(keys, schema.v[i].k))
              ELSE {} : i \in 1..Len(schema.v)}

\* C7 as stated: in strict mode each undeclared key of every level reached
\* yields exactly one "Unexpected key" error carrying its dotted path, and
\* nothing else does; without strict mode there is no such error.
C7_Claim ==
    (Returned /\ args.schema.t = "object" /\ args.obj.t = "object") =>
        LET unexpected == {j \in 1..Len(ret.errors) :
                              ret.errors[j].kind = "Unexpected key"}
            undeclared == UndeclaredPaths(args.schema, args.obj, TopKeys)
        IN IF args.strictMode
           THEN /\ \A j \in unexpected : ret.errors[j].path \in undeclared
                /\ \A p \in undeclared :
                      Cardinality({j \in unexpected : ret.errors[j].path = p}) = 1
           ELSE unexpected = {}

\* a returned call on a schema of one required leaf that holds the
\* delimiter "|" and whose key is present in the value
UnionCall ==
    /\ LeafCall
    /\ Len(args.schema.v) = 1
    /\ ~LeafOptional(args.schema.v[1].v.v)
    /\ \E i \in 1..Len(args.schema.v[1].v.v) : args.schema.v[1].v.v[i] = "|"
    /\ hasOwnProperty(args.obj, args.schema.v[1].k)

\* the required leaves of the model with the same segments as expr
SameSegments(expr) ==
    {e \in LeafTypes : ~LeafOptional(e) /\ Segments(e) = Segments(expr)}

\* the call with the leaf replaced by e accepts or rejects as the call did
SameVerdict(e) ==
    checkStructure(typesMap, Obj(<<Prop(args.schema.v[1].k, Str(e))>>),
                   args.obj, args.path, args.strictMode).isValid = ret.isValid

\* C16 as stated: the value of a union leaf is accepted iff the type of at
\* least one non-empty trimmed segment accepts it, and every leaf with the
\* same set of segments (reordered, spaced, delimiter repeated) accepts the
\* same values.
C16_Claim ==
    UnionCall =>
        LET leaf == args.schema.v[1].v.v
            value == getProp(args.obj, args.schema.v[1].k)
        IN /\ (ErrorsAtField(1) = 0)
                <=> \E seg \in Segments(leaf) : SegmentAccepts(typesMap, seg, value)
           /\ \A e \in SameSegments(leaf) : SameVerdict(e)

\* C16, amended: every leaf with the same set of non-empty trimmed
\* segments accepts the same values, and a value other than undefined is
\* accepted iff the type of at least one segment accepts it; undefined is
\* rejected as a missing key whatever the segments.
C16_UnionBySegmentSet ==
    UnionCall =>
        LET leaf == args.schema.v[1].v.v
            value == getProp(args.obj, args.schema.v[1].k)
        IN /\ value.t # "undefined" =>
                ((ErrorsAtField(1) = 0)
                   <=> \E seg \in Segments(leaf) :
                          SegmentAccepts(typesMap, seg, value))
           /\ value.t = "undefined" =>
                /\ ErrorsAtField(1) = 1
                /\ \E j \in 1..Len(ret.errors) :
                      ret.errors[j].kind = "Missing required key"
           /\ \A e \in SameSegments(leaf) : SameVerdict(e)

\* a value was accepted by the second segment of a union that the model
\* also holds with its segments in another order
C16_Witness ==
    /\ UnionCall
    /\ ErrorsAtField(1) = 0
    /\ LET leaf == args.schema.v[1].v.v
           value == getProp(args.obj, args.schema.v[1].k)
       IN /\ Cardinality(Segments(leaf)) = 2
          /\ SameSegments(leaf) # {leaf}
          /\ ~SegmentAccepts(typesMap, trim(split(leaf, "|")[1]), value)

C9_Claim ==
    [][args'.op = "registerType" =>
         LET key == normalize(args'.name)
         IN IF key \in listTypes(typesMap) /\ ~args'.override
            THEN /\ ret'.raised = "already registered"
                 /\ typesMap' = typesMap
            ELSE /\ ret'.raised = "none"
                 /\ key \in listTypes(typesMap')
                 /\ lookup(typesMap', key) = args'.validator]_vars

\* C10 as stated: unregisterType(name) succeeds exactly when the normalized
\* name is listed; on success the name is no longer listed and every other
\* entry is unchanged; otherwise it raises 'not registered' and leaves the
\* registry unchanged.
C10_Claim ==
    [][args'.op = "unregisterType" =>
         LET key == normalize(args'.name)
         IN IF key \in listTypes(typesMap)
            THEN /\ ret'.raised = "none"
                 /\ listTypes(typesMap') = listTypes(typesMap) \ {key}
                 /\ \A k \in listTypes(typesMap') : typesMap'[k] = typesMap[k]
            ELSE /\ ret'.raised = "not registered"
                 /\ typesMap' = typesMap]_vars

\* the operations of the registry that are given a type name or names
ReadOnlyOps ==
    {"is", "isType", "checkStructure", "validate", "listTypes", "exportTypes",
     "importTypes"}

\* C11: across every step, an entry of the registry stays in place with
\* the same validator unless the step is a successful unregisterType of its
\* name or a successful registerType of its name with override = true; and
\* is, isType, checkStructure, validate, listTypes, exportTypes,
\* importTypes and failed registerType / unregisterType calls leave the
\* registry as it was.
C11_RegistryFrame ==
    [][/\ \A k \in DOMAIN typesMap :
            \/ k \in DOMAIN typesMap' /\ typesMap'[k] = typesMap[k]
            \/ /\ args'.op = "unregisterType"
               /\ ret'.raised = "none"
               /\ normalize(args'.name) = k
            \/ /\ args'.op = "registerType"
               /\ ret'.raised = "none"
               /\ args'.override
               /\ normalize(args'.name) = k
       /\ args'.op \in ReadOnlyOps => typesMap' = typesMap
       /\ (args'.op \in {"registerType", "unregisterType"}
             /\ ret'.raised # "none") => typesMap' = typesMap]_vars

\* an importTypes of a name that is not registered has returned, and the
\* custom entry x is still in place
C11_Witness ==
    /\ args.op = "importTypes"
    /\ ret.raised = "none"
    /\ ret.warnings # <<>>
    /\ N_x \in DOMAIN typesMap
    /\ typesMap[N_x] = "vStr"

\* the names of the model that normalize to the same name as n
SameName(n) == {m \in RegNames \cup {N_z} : normalize(m) = normalize(n)}

\* C12 as stated: every operation normalizes a type name before looking
\* it up (registerType, unregisterType, is, isType, the leaf of
\* checkStructure, the known-name test of importTypes), so names that
\* differ in letter case or surrounding white space give the same outcome,
\* and listTypes() holds normalized names only.
C12_Claim ==
    [][/\ \A k \in listTypes(typesMap') : normalize(k) = k
       /\ args'.op = "registerType" =>
            \A m \in SameName(args'.name) :
               LET r == registerType(typesMap, m, args'.validator, args'.override)
               IN r.raised = ret'.raised /\ r.map = typesMap'
       /\ args'.op = "unregisterType" =>
            \A m \in SameName(args'.name) :
               LET r == unregisterType(typesMap, m)
               IN r.raised = ret'.raised /\ r.map = typesMap'
       /\ (args'.op = "is" /\ Len(args'.types) = 1) =>
            \A m \in SameName(args'.types[1]) :
               is(typesMap, args'.value, <<m>>) = ret'.value
       /\ (args'.op = "isType" /\ Len(args'.types) = 1) =>
            \A m \in SameName(args'.types[1]) :
               LET r == isType(typesMap, <<m>>, args'.value)
               IN r.raised = ret'.result.raised
       /\ args'.op = "checkStructure" =>
            \A m \in SameName(args'.schema.v[1].v.v) :
               checkStructure(typesMap, Obj(<<Prop(K_a, Str(m))>>), args'.obj,
                              args'.path, args'.strictMode).isValid
                 = ret'.isValid
       /\ (args'.op = "importTypes" /\ ret'.raised = "none") =>
            LET types == parseJSON(args'.json).value.v
            IN ret'.warnings =
                 SelectSeq(types,
                           LAMBDA e : lookup(typesMap, normalize(propertyKey(e)))
                                        = "undefined")]_vars

\* the position of the first candidate of isType that accepts, 0 if none
FirstAccepting(reg, types, p) ==
    LET ok == {i \in 1..Len(types) :
                 accepts(reg, lookup(reg, normalize(types[i])), p, TRUE)}
    IN IF ok = {} THEN 0 ELSE CHOOSE i \in ok : \A j \in ok : i <= j

\* an isType call whose names all have a checker has returned or raised
IsTypeResolved ==
    /\ args.op = "isType"
    /\ \A i \in 1..Len(args.types) :
          lookup(typesMap, normalize(args.types[i])) # "undefined"

\* C13 as stated: when a candidate of isType(types, value) accepts, isType
\* returns what the first accepting validator returned.
C13_Claim ==
    (IsTypeResolved /\ FirstAccepting(typesMap, args.types, args.value) # 0) =>
        /\ ret.result.raised = "none"
        /\ ret.result.value =
             returned(lookup(typesMap, normalize(
                 args.types[FirstAccepting(typesMap, args.types, args.value)])),
                 args.value)

\* C13, amended: when a candidate of isType(types, value) accepts, isType
\* returns the value it was given, whatever the accepting validator
\* returned; it returns only if a candidate accepts.
C13_ReturnsInput ==
    IsTypeResolved =>
        IF FirstAccepting(typesMap, args.types, args.value) # 0
        THEN ret.result.raised = "none" /\ ret.result.value = args.value
        ELSE ret.result.raised # "none"

\* isType has returned a value its accepting validator returns changed
C13_Witness ==
    /\ IsTypeResolved
    /\ ret.result.raised = "none"
    /\ LET i == FirstAccepting(typesMap, args.types, args.value)
       IN returned(lookup(typesMap, normalize(args.types[i])), args.value)
            # args.value

\* C14: when every candidate of isType(types, value) rejects the value,
\* isType raises one TypeError whose message holds the rejection reason of
\* every candidate, one per candidate, in the order of the candidates.
C14_AllReasonsInOrder ==
    (IsTypeResolved /\ FirstAccepting(typesMap, args.types, args.value) = 0) =>
        /\ ret.result.raised = "TypeError"
        /\ Len(ret.result.reasons) = Len(args.types)
        /\ \A i \in 1..Len(args.types) :
              ret.result.reasons[i] =
                 reason(typesMap, lookup(typesMap, normalize(args.types[i])),
                        args.value)

\* isType has raised for two candidates that reject for different reasons
C14_Witness ==
    /\ IsTypeResolved
    /\ ret.result.raised = "TypeError"
    /\ Len(args.types) > 1
    /\ ret.result.reasons[1] # ret.result.reasons[Len(args.types)]

\* C15 as stated: is raises 'Unknown type' exactly when isType raises it
\* on the same value and names, wherever the unregistered name stands and
\* whether or not an earlier candidate accepts; otherwise is returns true
\* or false.
C15_Claim ==
    /\ args.op = "is" =>
          (ret.value = "unknown"
             <=> isType(typesMap, args.types, args.value).raised = "Unknown type")
    /\ args.op = "isType" =>
          (ret.result.raised = "Unknown type"
             <=> is(typesMap, args.value, args.types) = "unknown")

\* the values a custom type is tried on
CustomTypeValues == Scalars \cup {S_Up}

\* C18 as stated: right after a successful registerType(name, v), is(x,
\* name) is true for the values v returns on and false for the values v
\* throws on, and a checkStructure leaf naming the type accepts the same
\* values; right after a successful unregisterType(name), is and isType on
\* that name raise 'Unknown type'.
C18_Claim ==
    /\ (args.op = "registerType" /\ ret.raised = "none") =>
          \A x \in CustomTypeValues :
             LET ok == accepts(typesMap, args.validator, x, TRUE)
             IN /\ is(typesMap, x, <<args.name>>) = IF ok THEN "true" ELSE "false"
                /\ checkStructure(typesMap, Obj(<<Prop(K_a, Str(args.name))>>),
                                  Obj(<<Prop(K_a, x)>>), <<>>, FALSE).isValid = ok
    /\ (args.op = "unregisterType" /\ ret.raised = "none") =>
          \A x \in CustomTypeValues :
             /\ is(typesMap, x, <<args.name>>) = "unknown"
             /\ isType(typesMap, <<args.name>>, x).raised = "Unknown type"

\* C19 as stated: importTypes(payload) fails when the payload is not valid
\* JSON, is not an array, or is an array with an entry that is not a
\* string; for an array of strings it returns, with one warning for each
\* name that is not registered and none for the others.
C19_Claim ==
    args.op = "importTypes" =>
        LET parsed == parseJSON(args.json)
            wellFormed ==
                /\ parsed.ok
                /\ isArray(parsed.value)
                /\ \A i \in 1..Len(parsed.value.v) : parsed.value.v[i].t = "string"
        IN IF ~wellFormed THEN ret.raised # "none"
           ELSE /\ ret.raised = "none"
                /\ ret.warnings =
                     SelectSeq(parsed.value.v,
                               LAMBDA e : normalize(e.v) \notin listTypes(typesMap))

\* the type names the documentation lists as supported
DocumentedTypes ==
    {<<"s","t","r","i","n","g">>,
     <<"n","u","m","b","e","r">>,
     <<"b","o","o","l","e","a","n">>,
     <<"b","i","g","i","n","t">>,
     <<"s","y","m","b","o","l">>,
     <<"u","n","d","e","f","i","n","e","d">>,
     <<"n","u","l","l">>,
     <<"o","b","j","e","c","t">>,
     <<"a","r","r","a","y">>,
     <<"f","u","n","c","t","i","o","n">>,
     <<"d","a","t","e">>,
     <<"r","e","g","e","x","p">>,
     <<"m","a","p">>,
     <<"s","e","t">>,
     <<"a","r","r","a","y","b","u","f","f","e","r">>,
     <<"d","a","t","a","v","i","e","w">>,
     <<"t","y","p","e","d","a","r","r","a","y">>,
     <<"j","s","o","n">>,
     <<"d","o","m","e","l","e","m","e","n","t">>}

\* C20 as stated: in a fresh registry every documented type name resolves,
\* and every built-in type has, besides its canonical name, a shorter
\* alias that resolves to the same validator.
C20_Claim ==
    args.op = "none" =>
        /\ \A n \in DocumentedTypes : lookup(typesMap, normalize(n)) # "undefined"
        /\ \A n \in listTypes(typesMap) :
              \E m \in listTypes(typesMap) :
                 /\ typesMap[m] = typesMap[n]
                 /\ Len(m) # Len(n)

(***************************************************************************)
(* Further properties of checkStructure, under SpecCS                      *)
(***************************************************************************)
\* obj without its own keys other than key
OnlyKey(obj, key) ==
    IF hasOwnProperty(obj, key) THEN Obj(<<Prop(key, getProp(obj, key))>>)
    ELSE Obj(<<>>)

\* the errors of field i of schema alone
FieldErrors(reg, schema, obj, path, strictMode, i) ==
    checkStructure(reg, Obj(<<schema.v[i]>>), OnlyKey(obj, schema.v[i].k), path,
                   strictMode).errors

\* the errors of fields 1..i of schema, field after field
RECURSIVE FieldsInOrder(_, _, _, _, _, _)
FieldsInOrder(reg, schema, obj, path, strictMode, i) ==
    IF i = 0 THEN <<>>
    ELSE FieldsInOrder(reg, schema, obj, path, strictMode, i - 1)
         \o FieldErrors(reg, schema, obj, path, strictMode, i)

\* the unexpected-key errors of one level, in the order of the keys of obj
LevelUnexpected(schema, obj, path) ==
    LET extra == SelectSeq(keysOf(obj), LAMBDA k : ~hasOwnProperty(schema, k))
    IN [j \in 1..Len(extra) |->
          Err("Unexpected key", fullPathOf(path, extra[j]), <<>>, "")]

\* the errors of the call (schema, obj, path) are those of its fields in
\* the order of the keys of schema, then the unexpected keys of the level
OrderedLevel(reg, schema, obj, path, strictMode) ==
    checkStructure(reg, schema, obj, path, strictMode).errors
      = FieldsInOrder(reg, schema, obj, path, strictMode, Len(schema.v))
        \o (IF strictMode THEN LevelUnexpected(schema, obj, path) ELSE <<>>)

\* errs, the errors of an array field at fullPath with n elements, name
\* the elements in ascending order of index
AscendingIndex(errs, fullPath, n) ==
    \A j, k \in 1..Len(errs) :
       j < k =>
          \E a, b \in 0..(n - 1) :
             /\ a <= b
             /\ errs[j].path = elemPathOf(fullPath, a)
             /\ errs[k].path = elemPathOf(fullPath, b)

\* a returned call on a plain-object schema and a plain-object value
ObjectCall ==
    /\ Returned
    /\ args.schema.t = "object" /\ args.obj.t = "object"

\* C21: the errors of a call are the errors of its declared fields, field
\* after field in the order of the keys of the schema, each nested-object
\* field contributing the whole result of its nested call at that place,
\* each array field naming its elements by ascending index, and in strict
\* mode the unexpected-key errors of a level follow the errors of all the
\* declared fields of that level; the same holds for every nested call.
C21_ErrorOrder ==
    ObjectCall =>
        /\ ret.errors =
             FieldsInOrder(typesMap, args.schema, args.obj, args.path,
                           args.strictMode, Len(args.schema.v))
             \o (IF args.strictMode
                 THEN LevelUnexpected(args.schema, args.obj, args.path)
                 ELSE <<>>)
        /\ \A c \in AllNestedCalls(args.schema, args.obj, args.path) :
              OrderedLevel(typesMap, c[1], c[2], c[3], args.strictMode)
        /\ \A i \in 1..Len(args.schema.v) :
              LET node == args.schema.v[i].v
                  value == getProp(args.obj, args.schema.v[i].k)
              IN /\ (node.t = "array" /\ Len(node.v) = 1
                       /\ node.v[1].t = "string" /\ value.t = "array") =>
                       AscendingIndex(
                           FieldErrors(typesMap, args.schema, args.obj, args.path,
                                       args.strictMode, i),
                           fullPathOf(args.path, args.schema.v[i].k), Len(value.v))
                 /\ (node.t = "object" /\ value.t = "object") =>
                       FieldErrors(typesMap, args.schema, args.obj, args.path,
                                   args.strictMode, i)
                         = checkStructure(typesMap, node, value,
                               fullPathOf(args.path, args.schema.v[i].k),
                               args.strictMode).errors

\* a strict call whose first field is a nested object with two errors of
\* its own, whose second field fails, and whose value has an undeclared key
C21_Witness ==
    /\ ObjectCall /\ args.strictMode
    /\ Len(args.schema.v) = 2
    /\ args.schema.v[1].v.t = "object"
    /\ getProp(args.obj, args.schema.v[1].k).t = "object"
    /\ Len(FieldErrors(typesMap, args.schema, args.obj, args.path, TRUE, 1)) > 1
    /\ FieldErrors(typesMap, args.schema, args.obj, args.path, TRUE, 2) # <<>>
    /\ LevelUnexpected(args.schema, args.obj, args.path) # <<>>

\* a schema node that is malformed: a type expression with no segment
\* (also once a trailing "?" is dropped), an array schema that does not
\* hold exactly one string, or a node that is no string, array or object
Malformed(node) ==
    \/ node.t = "string" /\ Segments(LeafBase(node.v)) = {}
    \/ node.t = "array" /\ (Len(node.v) # 1 \/ node.v[1].t # "string")
    \/ node.t \notin {"string", "array", "object"}

\* C22 as stated: a schema with a malformed declared field gives
\* isValid = false for every value object, the field being absent or null
\* included.
C22_Claim ==
    (ObjectCall /\ \E i \in 1..Len(args.schema.v) : Malformed(args.schema.v[i].v))
        => ~ret.isValid

\* C23 as stated: an array schema node is checked for zero elements, then
\* for more than one element, then for an element type that is not a
\* string, then for a value that is not an array; the first check that
\* fails gives the one error of the field, at the path of the field.
C23_Claim ==
    ObjectCall =>
        \A i \in 1..Len(args.schema.v) :
            LET node == args.schema.v[i].v
                value == getProp(args.obj, args.schema.v[i].k)
                kind == IF Len(node.v) = 0 THEN "Empty array schema definition"
                        ELSE IF Len(node.v) > 1
                        THEN "Array schema must have exactly one element"
                        ELSE IF node.v[1].t # "string"
                        THEN "Array element type must be a string"
                        ELSE IF value.t # "array" THEN "Expected to be an array"
                        ELSE "none"
                errs == FieldErrors(typesMap, args.schema, args.obj, args.path,
                                    args.strictMode, i)
            IN (node.t = "array" /\ value.t # "undefined" /\ kind # "none") =>
                  /\ Len(errs) = 1
                  /\ errs[1].kind = kind
                  /\ errs[1].path = fullPathOf(args.path, args.schema.v[i].k)

\* the result holds a 'Missing required key' error for field i
MissingReported(i) ==
    \E j \in 1..Len(ret.errors) :
       /\ ret.errors[j].kind = "Missing required key"
       /\ ret.errors[j].path = TopPath(args.schema.v[i].k)

RECURSIVE SchemaDepth(_)
SchemaDepth(schema) ==
    IF schema.t # "object" THEN 1
    ELSE 1 + Max({0} \cup {SchemaDepth(schema.v[i].v) :
                              i \in {j \in 1..Len(schema.v) :
                                       schema.v[j].v.t = "object"}})

\* the nesting depth of a value: one more for every level of plain objects
RECURSIVE ValueDepth(_)
ValueDepth(value) ==
    IF value.t # "object" THEN 0
    ELSE 1 + Max({0} \cup {ValueDepth(value.v[i].v) : i \in 1..Len(value.v)})

\* C25: every call of checkStructure returns, and the checkStructure calls
\* it nests never exceed the nesting depth of the schema, however deep the
\* value is.
C25_DepthBoundedBySchema ==
    (args.op = "checkStructure" /\ ret.done) =>
        /\ ~ret.raised
        /\ recursionDepth(args.schema, args.obj) <= SchemaDepth(args.schema)

\* a call has returned on a value nested deeper than its schema, which is
\* itself nested
C25_Witness ==
    /\ ObjectCall
    /\ SchemaDepth(args.schema) > 1
    /\ ValueDepth(args.obj) > SchemaDepth(args.schema)
    /\ recursionDepth(args.schema, args.obj) = SchemaDepth(args.schema)

(***************************************************************************)
(* The two matchers compared, under Spec                                   *)
(***************************************************************************)

\* the names of a list joined by "|", as a type expression
RECURSIVE JoinBar(_)
JoinBar(types) ==
    IF Len(types) = 0 THEN <<>>
    ELSE IF Len(types) = 1 THEN types[1]
    ELSE types[1] \o <<"|">> \o JoinBar(Tail(types))

\* every name of the list is registered
AllRegistered(types) ==
    \A i \in 1..Len(types) : normalize(types[i]) \in listTypes(typesMap)

\* the leaf with the type expression of the list accepts the value
LeafAccepts(types, value) ==
    checkStructure(typesMap, Obj(<<Prop(K_a, Str(JoinBar(types)))>>),
                   Obj(<<Prop(K_a, value)>>), <<>>, FALSE).isValid

\* C26: for a list of registered names, is returns true exactly when isType
\* returns without raising, and the checkStructure leaf of the list accepts
\* the value exactly then too.
C26_Claim ==
    (args.op \in {"is", "isType"} /\ AllRegistered(args.types)) =>
        LET returns == isType(typesMap, args.types, args.value).raised = "none"
        IN /\ args.op = "is" => (ret.value = "true" <=> returns)
           /\ args.op = "isType" =>
                 /\ ret.result.raised = "none" <=> returns
                 /\ is(typesMap, args.value, args.types) = "true" <=> returns
           /\ LeafAccepts(args.types, args.value) <=> returns

(***************************************************************************)
(* Strict mode against default mode, under SpecCS                          *)
(***************************************************************************)

\* the call of args with the given strictMode
WithStrictMode(strictMode) ==
    checkStructure(typesMap, args.schema, args.obj, args.path, strictMode)

\* a is a subsequence of b
RECURSIVE IsSubsequence(_, _)
IsSubsequence(a, b) ==
    IF Len(a) = 0 THEN TRUE
    ELSE IF Len(b) = 0 THEN FALSE
    ELSE IF Head(a) = Head(b) THEN IsSubsequence(Tail(a), Tail(b))
    ELSE IsSubsequence(a, Tail(b))

\* C27: the errors of a call in default mode are a subsequence of the
\* errors of the same call in strict mode, what strict mode adds being the
\* unexpected-key errors and nothing else; a value valid in strict mode is
\* valid in default mode.
C27_StrictOnlyAdds ==
    (args.op = "checkStructure" /\ ret.done) =>
        LET strict == WithStrictMode(TRUE)
            default == WithStrictMode(FALSE)
        IN /\ ret.errors = IF args.strictMode THEN strict.errors ELSE default.errors
           /\ IsSubsequence(default.errors, strict.errors)
           /\ default.errors =
                 SelectSeq(strict.errors, LAMBDA e : e.kind # "Unexpected key")
           /\ \A i \in 1..Len(default.errors) :
                 default.errors[i].kind # "Unexpected key"
           /\ strict.isValid => default.isValid

\* a strict call has returned unexpected-key errors next to other errors
C27_Witness ==
    /\ ObjectCall
    /\ args.strictMode
    /\ \E i, j \in 1..Len(ret.errors) :
          /\ ret.errors[i].kind = "Unexpected key"
          /\ ret.errors[j].kind # "Unexpected key"
    /\ WithStrictMode(FALSE).errors # <<>>
    /\ WithStrictMode(FALSE).errors # ret.errors

(***************************************************************************)
(* Unregistered names in a leaf, under SpecCS                              *)
(***************************************************************************)

\* the segment names a type of listTypes()
Registered(seg) == normalize(seg) \in listTypes(typesMap)

\* the call is on one required string leaf with at least one segment that
\* names no registered type, and on an object holding a value at its key
UnregisteredSegmentCall ==
    /\ LeafCall
    /\ Len(args.schema.v) = 1
    /\ ~LeafOptional(args.schema.v[1].v.v)
    /\ \E seg \in Segments(args.schema.v[1].v.v) : ~Registered(seg)
    /\ getProp(args.obj, args.schema.v[1].k).t # "undefined"

\* C28: a leaf segment naming an unregistered type never raises and matches
\* nothing: the leaf accepts a present value exactly when one of its
\* registered segments accepts it, and a leaf of unregistered names only
\* gives one type-mismatch error at the field.
C28_Claim ==
    UnregisteredSegmentCall =>
        LET leaf == args.schema.v[1].v.v
            value == getProp(args.obj, args.schema.v[1].k)
        IN /\ \A j \in 1..Len(ret.errors) :
                 ret.errors[j].kind # "Validation error at"
           /\ (ErrorsAtField(1) = 0)
                <=> \E seg \in Segments(leaf) :
                       Registered(seg) /\ SegmentAccepts(typesMap, seg, value)
           /\ (\A seg \in Segments(leaf) : ~Registered(seg)) =>
                 /\ ErrorsAtField(1) = 1
                 /\ \A j \in 1..Len(ret.errors) :
                       ret.errors[j].path = TopPath(args.schema.v[1].k)
                          => ret.errors[j].kind = "Expected to be"

(***************************************************************************)
(* The optional marker away from the end of a leaf, under SpecCS           *)
(***************************************************************************)

\* some segment of the type expression ends with "?"
MarkedSegment(expr) == \E seg \in Segments(expr) : LeafOptional(seg)

\* the call is on {a: [T]} with T a string holding a segment that ends
\* with "?", and on an object whose a is an array
MarkedElementCall ==
    /\ Returned
    /\ args.schema.t = "object" /\ Len(args.schema.v) = 1
    /\ args.schema.v[1].k = K_a
    /\ args.schema.v[1].v.t = "array" /\ Len(args.schema.v[1].v.v) = 1
    /\ args.schema.v[1].v.v[1].t = "string"
    /\ MarkedSegment(args.schema.v[1].v.v[1].v)
    /\ args.obj.t = "object" /\ getProp(args.obj, K_a).t = "array"

\* the call is on one string leaf that does not end with "?" and holds a
\* segment that does
MarkedUnionCall ==
    /\ LeafCall
    /\ Len(args.schema.v) = 1
    /\ ~LeafOptional(args.schema.v[1].v.v)
    /\ MarkedSegment(args.schema.v[1].v.v)

\* C29: "?" makes a field optional only as the last character of the
\* field's own leaf.  In an array element type and on a non-final union
\* segment it stays in the name that is looked up: every element of an
\* array under ["string?"] is rejected, null included, so only the empty
\* array is valid, and a leaf "string?|number" is a required field that
\* accepts what its segments, taken as written, accept.
C29_MarkerOnlyAtLeafEnd ==
    /\ MarkedElementCall =>
          LET T == args.schema.v[1].v.v[1].v
              elems == getProp(args.obj, K_a).v
              at(p) == Cardinality({j \in 1..Len(ret.errors) :
                                      ret.errors[j].path = p})
          IN /\ \A n \in 1..Len(elems) :
                   at(ElemPath(n - 1)) =
                      IF \E seg \in Segments(T) :
                            SegmentAccepts(typesMap, seg, elems[n])
                      THEN 0 ELSE 1
             /\ (T = Optional(N_string) /\ ~args.strictMode) =>
                   /\ Len(ret.errors) = Len(elems)
                   /\ ret.isValid <=> elems = <<>>
    /\ MarkedUnionCall =>
          LET leaf == args.schema.v[1].v.v
              value == getProp(args.obj, args.schema.v[1].k)
          IN IF value.t = "undefined"
             THEN /\ ErrorsAtField(1) = 1
                  /\ \E j \in 1..Len(ret.errors) :
                        ret.errors[j].kind = "Missing required key"
             ELSE (ErrorsAtField(1) = 0)
                     <=> \E seg \in Segments(leaf) :
                            SegmentAccepts(typesMap, seg, value)

\* a call on {a: ["string?"]} has rejected a string and null, one error per
\* element
C29_Witness ==
    /\ MarkedElementCall
    /\ args.schema.v[1].v.v[1].v = Optional(N_string)
    /\ \E m, n \in 1..Len(getProp(args.obj, K_a).v) :
          /\ getProp(args.obj, K_a).v[m].t = "string"
          /\ getProp(args.obj, K_a).v[n].t = "null"
    /\ Len(ret.errors) >= 2
    /\ ~ret.isValid

(***************************************************************************)
(* Registered names and listTypes(), under Spec                            *)
(***************************************************************************)

\* the name is resolved to a validator exactly when listTypes() holds its
\* normalized form
ResolvedIffListed(reg, name) ==
    lookup(reg, normalize(name)) # "undefined"
       <=> normalize(name) \in listTypes(reg)

\* C30: in every reachable registry state a name is treated as registered
\* exactly when its normalized form is in listTypes(): registerType
\* without override rejects it, unregisterType accepts it, is and isType
\* resolve it; a name never registered, such as "constructor", resolves to
\* no validator.
C30_Claim ==
    [][/\ \A name \in RegNames \cup {N_z} : ResolvedIffListed(typesMap, name)
       /\ (args'.op = "registerType" /\ ~args'.override) =>
             (ret'.raised = "already registered"
                <=> normalize(args'.name) \in listTypes(typesMap))
       /\ args'.op = "unregisterType" =>
             (ret'.raised = "none"
                <=> normalize(args'.name) \in listTypes(typesMap))
       /\ (args'.op = "is" /\ Len(args'.types) = 1) =>
             (ret'.value # "unknown"
                <=> normalize(args'.types[1]) \in listTypes(typesMap))
       /\ args'.op = "isType" =>
             (ret'.result.raised # "Unknown type"
                <=> \A i \in 1..Len(args'.types) :
                       normalize(args'.types[i]) \in listTypes(typesMap))]_vars

====
